---- MODULE Spec2Model ----
(***************************************************************************)
(* Model of src/src/sys/windows/named_pipe.rs: the NamedPipe facade, its   *)
(* engine core (Inner), the per-direction state machine (Io / State), the  *)
(* buffer pool, and the overlapped operations the kernel runs for it.      *)
(*                                                                         *)
(* A pipe instance has two ends, "server" and "client".  Every end is a    *)
(* NamedPipe running the code below; wire[p] holds the bytes the kernel    *)
(* has accepted for end p and that p has not read yet.                     *)
(***************************************************************************)
EXTENDS Integers, Sequences, FiniteSets, TLC

\* ------------------------------------------------------------------ bounds
\* Tokens are 1..MaxToken; 0 stands for Option::None.
MaxToken == 1
\* Longest caller buffer handed to write().
MaxWrite == 2
\* Largest caller buffer handed to read().
MaxRead == 2
\* Byte values are 1..MaxByte.
MaxByte == 1
\* Bytes the kernel buffers per direction before a write has to wait.
MaxWire == 2
\* Largest capacity a buffer pool is constructed with.
MaxPoolCap == 2
\* Inner allocations start at addresses 0..MaxBase (layout specification).
MaxBase == 7
\* A completion slot (Overlapped) takes 1..MaxSlotSize address units.
MaxSlotSize == 4
\* Length of the byte stream sent in the round-trip specification.
MaxStream == 3

\* ------------------------------------------------------------- vocabulary
Pipes == {"server", "client"}

Peer(p) == IF p = "server" THEN "client" ELSE "server"

Threads == {"t1", "t2"}

Tokens == 1..MaxToken

Bytes == 1..MaxByte

Min(a, b) == IF a < b THEN a ELSE b

RECURSIVE SeqsUpTo(_)
SeqsUpTo(n) ==
    IF n = 0 THEN {<<>>}
    ELSE LET shorter == SeqsUpTo(n - 1)
         IN  shorter \cup {Append(s, b) : s \in {x \in shorter : Len(x) = n - 1}, b \in Bytes}

CallerBufs == SeqsUpTo(MaxWrite)

\* winapi error codes the code tells apart, and one standing for any other.
ERROR_BROKEN_PIPE == "ERROR_BROKEN_PIPE"

ERROR_PIPE_LISTENING == "ERROR_PIPE_LISTENING"

ERROR_OTHER == "ERROR_OTHER"

\* enum State { None, Pending(Vec<u8>, usize), Ok(Vec<u8>, usize), Err(io::Error) }
StNone == [tag |-> "None", buf |-> <<>>, pos |-> 0, err |-> "none"]

StPending(b, n) == [tag |-> "Pending", buf |-> b, pos |-> n, err |-> "none"]

StOk(b, n) == [tag |-> "Ok", buf |-> b, pos |-> n, err |-> "none"]

StErr(e) == [tag |-> "Err", buf |-> <<>>, pos |-> 0, err |-> e]

\* struct Io as constructed: no token, both directions None, no deferred error.
IoInit == [token |-> 0, read |-> StNone, write |-> StNone, connect_error |-> "none"]

\* What a call returned: io::Result<..> flattened.
Res(tag, n, e, d) == [tag |-> tag, n |-> n, err |-> e, data |-> d]

would_block == Res("WouldBlock", 0, "none", <<>>)

\* An overlapped request the kernel holds for one completion slot.
\*   st    "pending" (submitted) or "done" (completion packet queued)
\*   n     bytes transferred, err the failure, data the bytes read (read slot)
\*         or the bytes still to be transferred (write slot).
Op(st, n, e, d) == [st |-> st, n |-> n, err |-> e, data |-> d]

NoOps == [connect |-> <<>>, read |-> <<>>, write |-> <<>>]

VARIABLES
    io,          \* io[p]: the Io structure behind Inner.io
    connecting,  \* connecting[p]: Inner.connecting (AtomicBool)
    pool,        \* pool[p]: BufferPool.pool, a stack of buffers
    poolCap,     \* poolCap[p]: capacity of BufferPool.pool, fixed at construction
    strong,      \* strong[p]: strong count of NamedPipe.inner (Arc<Inner>)
    alive,       \* alive[p]: the NamedPipe handle has not been dropped
    os,          \* os[p][slot]: requests submitted on Inner.connect/read/write
    cancels,     \* cancels[p]: slots CancelIoEx was called on
    pc,          \* pc[p][t]: where thread t stands inside a multi-step call on p
    link,        \* kernel state of the pipe instance
    wire,        \* wire[p]: bytes in the kernel on their way to p
    last,        \* outcome of the step just taken
    hist,        \* bytes accepted by write() and returned by read() (round trip)
    layout,      \* an Inner allocation and a completion's slot address (layout)
    locks        \* holders of Inner.io and Inner.pool, and each thread's way
                 \* through the lock and unlock steps of its call (locking)

vars == <<io, connecting, pool, poolCap, strong, alive, os, cancels, pc, link,
          wire, last, hist, layout, locks>>

NoCall == [pipe |-> "none", op |-> "init", res |-> Res("None", 0, "none", <<>>),
           ev |-> {}, got |-> <<>>]

Ret(p, op, res, m) == [pipe |-> p, op |-> op, res |-> res, ev |-> m.ev, got |-> m.got]

\* A step of the kernel or of the other end: no call of this pipe returned.
EnvStep == [pipe |-> "none", op |-> "env", res |-> Res("None", 0, "none", <<>>),
            ev |-> {}, got |-> <<>>]

Step(p, op) == [pipe |-> p, op |-> op, res |-> Res("None", 0, "none", <<>>),
                ev |-> {}, got |-> <<>>]

\* The part of Inner one call works on, threaded through the helpers below.
\*   ev   notify_readable / notify_writable calls made so far in this step
\*   got  buffers checked out of the pool in this step, as obtained
\*   out  bytes handed to the kernel and transferred at once in this step
Core(p) ==
    [io |-> io[p], pool |-> pool[p], cap |-> poolCap[p], os |-> os[p],
     strong |-> strong[p], ev |-> {}, got |-> <<>>, out |-> <<>>]

Commit(p, m) ==
    /\ io' = [io EXCEPT ![p] = m.io]
    /\ pool' = [pool EXCEPT ![p] = m.pool]
    /\ os' = [os EXCEPT ![p] = m.os]
    /\ strong' = [strong EXCEPT ![p] = m.strong]
    /\ wire' = [wire EXCEPT ![Peer(p)] = @ \o m.out]

\* ------------------------------------------------------------ buffer pool
\* Vec::set_len(n) for n <= len.
set_len(buf, n) == SubSeq(buf, 1, n)

\* BufferPool::get: pop, or a fresh empty Vec::with_capacity(default_cap).
BufferPool_get(pl) ==
    IF pl = <<>>
    THEN [buf |-> <<>>, pool |-> pl]
    ELSE [buf |-> pl[Len(pl)], pool |-> SubSeq(pl, 1, Len(pl) - 1)]

BufferPool_put_unbounded(pl, cap, buf) == Append(pl, set_len(buf, 0))

\* BufferPool::put: keep the truncated buffer unless the pool is full.
BufferPool_put(pl, cap, buf) ==
    IF Len(pl) < cap THEN Append(pl, set_len(buf, 0)) ELSE pl

get_buffer(m) ==
    LET r == BufferPool_get(m.pool)
    IN  [buf |-> r.buf, m |-> [m EXCEPT !.pool = r.pool, !.got = Append(@, r.buf)]]

put_buffer(m, buf) == [m EXCEPT !.pool = BufferPool_put(@, m.cap, buf)]

\* Io::notify_readable / Io::notify_writable: the pipe is declared ready.
notify_readable(m) == [m EXCEPT !.ev = @ \cup {"readable"}]

notify_writable(m) == [m EXCEPT !.ev = @ \cup {"writable"}]

\* ------------------------------------------------- what the kernel answers
\* ConnectNamedPipe: a client is already there (Ok(true)), the request waits
\* for one (Ok(false)), or the call fails.
ConnectOutcomes ==
    CASE link = "connected" -> {[kind |-> "now", k |-> 0, err |-> "none"]}
      [] link = "listening" -> {[kind |-> "pending", k |-> 0, err |-> "none"]}
      [] OTHER -> {[kind |-> "err", k |-> 0, err |-> ERROR_OTHER]}

\* ReadFile (overlapped): accepted, or refused because no client is connected,
\* or because the other end is gone and nothing is left to read.
ReadOutcomes(p) ==
    CASE link = "listening" -> {[kind |-> "err", k |-> 0, err |-> ERROR_PIPE_LISTENING]}
      [] link = "broken" /\ wire[p] = <<>> ->
            {[kind |-> "err", k |-> 0, err |-> ERROR_BROKEN_PIPE]}
      [] OTHER -> {[kind |-> "pending", k |-> 0, err |-> "none"]}

Room(p) == MaxWire - Len(wire[Peer(p)])

\* WriteFile (overlapped): up to k bytes are taken at once, or the request is
\* queued, or the call fails because the pipe is not connected.
WriteOutcomes(p) ==
    IF link = "connected"
    THEN {[kind |-> "now", k |-> k, err |-> "none"] : k \in 1..Room(p)}
         \cup {[kind |-> "pending", k |-> 0, err |-> "none"]}
    ELSE {[kind |-> "err", k |-> 0, err |-> ERROR_OTHER]}

\* ---------------------------------------------------------------- Inner
schedule_read_no_forget(m, o) ==
    IF m.io.read.tag # "None" THEN [m |-> m, active |-> TRUE]
    ELSE LET g == get_buffer(m)
         IN  CASE o.kind = "pending" ->
                    [m |-> [g.m EXCEPT !.io.read = StPending(g.buf, 0),
                                       !.os.read = Append(@, Op("pending", 0, "none", <<>>))],
                     active |-> TRUE]
               [] o.kind = "err" /\ o.err = ERROR_PIPE_LISTENING ->
                    [m |-> g.m, active |-> FALSE]
               [] OTHER ->
                    [m |-> notify_readable([g.m EXCEPT !.io.read = StErr(o.err)]),
                     active |-> TRUE]

schedule_read_unguarded(m, o) ==
    LET g == get_buffer(m)
    IN  CASE o.kind = "pending" ->
               [m |-> [g.m EXCEPT !.io.read = StPending(g.buf, 0),
                                  !.os.read = Append(@, Op("pending", 0, "none", <<>>)),
                                  !.strong = @ + 1],
                active |-> TRUE]
          [] o.kind = "err" /\ o.err = ERROR_PIPE_LISTENING ->
               [m |-> g.m, active |-> FALSE]
          [] OTHER ->
               [m |-> notify_readable([g.m EXCEPT !.io.read = StErr(o.err)]),
                active |-> TRUE]

\* Inner::schedule_read.  o is the kernel's answer to read_overlapped.
schedule_read(m, o) ==
    IF m.io.read.tag # "None" THEN [m |-> m, active |-> TRUE]
    ELSE LET g == get_buffer(m)
         IN  CASE o.kind = "pending" ->
                    [m |-> [g.m EXCEPT !.io.read = StPending(g.buf, 0),
                                       !.os.read = Append(@, Op("pending", 0, "none", <<>>)),
                                       !.strong = @ + 1],
                     active |-> TRUE]
               [] o.kind = "err" /\ o.err = ERROR_PIPE_LISTENING ->
                    [m |-> g.m, active |-> FALSE]
               [] OTHER ->
                    [m |-> notify_readable([g.m EXCEPT !.io.read = StErr(o.err)]),
                     active |-> TRUE]

maybe_schedule_write_stores_error(m, buf, pos, o) ==
    LET rest == SubSeq(buf, pos + 1, Len(buf))
        n == Min(o.k, Len(rest))
    IN  CASE o.kind = "now" ->
               [m |-> [m EXCEPT !.io.write = StOk(buf, pos),
                                !.os.write = Append(@, Op("done", n, "none", <<>>)),
                                !.strong = @ + 1,
                                !.out = @ \o SubSeq(rest, 1, n)],
                ret |-> "Some", n |-> n, err |-> "none"]
          [] o.kind = "pending" ->
               [m |-> [m EXCEPT !.io.write = StPending(buf, pos),
                                !.os.write = Append(@, Op("pending", 0, "none", rest)),
                                !.strong = @ + 1],
                ret |-> "None", n |-> 0, err |-> "none"]
          [] OTHER ->
               [m |-> [m EXCEPT !.io.write = StErr(o.err)],
                ret |-> "Err", n |-> 0, err |-> o.err]

\* Inner::maybe_schedule_write.  o is the kernel's answer to write_overlapped
\* for &buf[pos..]; ret is "Some" (n bytes written at once), "None" (queued)
\* or "Err".
maybe_schedule_write(m, buf, pos, o) ==
    LET rest == SubSeq(buf, pos + 1, Len(buf))
        n == Min(o.k, Len(rest))
    IN  CASE o.kind = "now" ->
               [m |-> [m EXCEPT !.io.write = StOk(buf, pos),
                                !.os.write = Append(@, Op("done", n, "none", <<>>)),
                                !.strong = @ + 1,
                                !.out = @ \o SubSeq(rest, 1, n)],
                ret |-> "Some", n |-> n, err |-> "none"]
          [] o.kind = "pending" ->
               [m |-> [m EXCEPT !.io.write = StPending(buf, pos),
                                !.os.write = Append(@, Op("pending", 0, "none", rest)),
                                !.strong = @ + 1],
                ret |-> "None", n |-> 0, err |-> "none"]
          [] OTHER ->
               [m |-> m, ret |-> "Err", n |-> 0, err |-> o.err]

post_register_any_write_state(m, o) ==
    LET s == schedule_read(m, o)
    IN  IF s.active THEN notify_writable(s.m) ELSE s.m

\* Inner::post_register.  o is the kernel's answer should a read be submitted.
post_register(m, o) ==
    LET s == schedule_read(m, o)
    IN  IF s.active /\ s.m.io.write.tag = "None" THEN notify_writable(s.m) ELSE s.m

\* ------------------------------------------------------ <&NamedPipe as Read>
read_err_no_reschedule(m, e, o) ==
    IF e = ERROR_BROKEN_PIPE
    THEN [m |-> m, res |-> Res("Ok", 0, "none", <<>>)]
    ELSE [m |-> m, res |-> Res("Err", 0, e, <<>>)]

\* read(), the State::Err(e) arm: the next read is scheduled, and a broken
\* pipe is reported as Ok(0).  m holds io.read = None (mem::replace).
read_err(m, e, o) ==
    LET after == schedule_read(m, o).m
    IN  IF e = ERROR_BROKEN_PIPE
        THEN [m |-> after, res |-> Res("Ok", 0, "none", <<>>)]
        ELSE [m |-> after, res |-> Res("Err", 0, e, <<>>)]

read_ok_keeps_cursor(m, data, cur, len, o) ==
    LET n == Min(len, Len(data) - cur)
        next == cur + n
        copied == SubSeq(data, cur + 1, next)
    IN  IF next # Len(data)
        THEN [m |-> [m EXCEPT !.io.read = StOk(data, cur)],
              res |-> Res("Ok", n, "none", copied)]
        ELSE [m |-> schedule_read(put_buffer(m, data), o).m,
              res |-> Res("Ok", n, "none", copied)]

read_ok_keeps_exhausted(m, data, cur, len, o) ==
    LET n == Min(len, Len(data) - cur)
        next == cur + n
        copied == SubSeq(data, cur + 1, next)
    IN  [m |-> [m EXCEPT !.io.read = StOk(data, next)],
         res |-> Res("Ok", n, "none", copied)]

\* read(), the State::Ok(data, cur) arm: copy out what fits of data[cur..];
\* when all is copied return the buffer and schedule the next read.
read_ok(m, data, cur, len, o) ==
    LET n == Min(len, Len(data) - cur)
        next == cur + n
        copied == SubSeq(data, cur + 1, next)
    IN  IF next # Len(data)
        THEN [m |-> [m EXCEPT !.io.read = StOk(data, next)],
              res |-> Res("Ok", n, "none", copied)]
        ELSE [m |-> schedule_read(put_buffer(m, data), o).m,
              res |-> Res("Ok", n, "none", copied)]

read_match_drops_pending(m, len, o) ==
    LET st == m.io.read
        taken == [m EXCEPT !.io.read = StNone]
    IN  CASE st.tag = "None" -> [m |-> taken, res |-> would_block]
          [] st.tag = "Pending" -> [m |-> taken, res |-> would_block]
          [] st.tag = "Ok" -> read_ok(taken, st.buf, st.pos, len, o)
          [] OTHER -> read_err(taken, st.err, o)

\* read(), the match on mem::replace(&mut state.read, State::None).
read_match(m, len, o) ==
    LET st == m.io.read
        taken == [m EXCEPT !.io.read = StNone]
    IN  CASE st.tag = "None" -> [m |-> taken, res |-> would_block]
          [] st.tag = "Pending" ->
               [m |-> [taken EXCEPT !.io.read = StPending(st.buf, st.pos)],
                res |-> would_block]
          [] st.tag = "Ok" -> read_ok(taken, st.buf, st.pos, len, o)
          [] OTHER -> read_err(taken, st.err, o)

read_unchecked(m, len, o) == read_match(m, len, o)

\* read(): o is the kernel's answer should the next read be submitted, len the
\* length of the caller's buffer.  Runs with Inner.io locked throughout.
read(m, len, o) ==
    IF m.io.token = 0 THEN [m |-> m, res |-> would_block] ELSE read_match(m, len, o)

\* ----------------------------------------------------- <&NamedPipe as Write>
write_submit_reports_queued(m, buf, o) ==
    LET g == get_buffer(m)
        owned_buf == g.buf \o buf
        s == maybe_schedule_write(g.m, owned_buf, 0, o)
    IN  CASE s.ret = "Some" -> [m |-> s.m, res |-> Res("Ok", s.n, "none", <<>>)]
          [] s.ret = "None" -> [m |-> s.m, res |-> Res("Ok", s.n, "none", <<>>)]
          [] OTHER -> [m |-> s.m, res |-> Res("Err", 0, s.err, <<>>)]

\* write(), once the state is None: the caller's bytes are moved into a pooled
\* buffer and the write is fired off.
write_submit(m, buf, o) ==
    LET g == get_buffer(m)
        owned_buf == g.buf \o buf
        s == maybe_schedule_write(g.m, owned_buf, 0, o)
    IN  CASE s.ret = "Some" -> [m |-> s.m, res |-> Res("Ok", s.n, "none", <<>>)]
          [] s.ret = "None" -> [m |-> s.m, res |-> Res("Ok", Len(buf), "none", <<>>)]
          [] OTHER -> [m |-> s.m, res |-> Res("Err", 0, s.err, <<>>)]

write_match_overlapping(m, buf, o) ==
    CASE m.io.write.tag = "Err" ->
           [m |-> [m EXCEPT !.io.write = StNone],
            res |-> Res("Err", 0, m.io.write.err, <<>>)]
      [] m.io.write.tag = "Pending" -> [m |-> m, res |-> would_block]
      [] OTHER -> write_submit(m, buf, o)

write_match_keeps_error(m, buf, o) ==
    CASE m.io.write.tag = "None" -> write_submit(m, buf, o)
      [] m.io.write.tag = "Err" -> [m |-> m, res |-> Res("Err", 0, m.io.write.err, <<>>)]
      [] OTHER -> [m |-> m, res |-> would_block]

\* write(), the match on io.write.
write_match(m, buf, o) ==
    CASE m.io.write.tag = "None" -> write_submit(m, buf, o)
      [] m.io.write.tag = "Err" ->
           [m |-> [m EXCEPT !.io.write = StNone],
            res |-> Res("Err", 0, m.io.write.err, <<>>)]
      [] OTHER -> [m |-> m, res |-> would_block]

\* write(): buf is the caller's bytes, o the kernel's answer to the submission.
write(m, buf, o) ==
    IF m.io.token = 0 THEN [m |-> m, res |-> would_block] ELSE write_match(m, buf, o)

\* ------------------------------------------------------------- NamedPipe
connect_swap_ignored(flag) == [connecting |-> TRUE, ret |-> "go"]

\* connect(), first statement: connecting.swap(true); a set flag ends the call.
connect_swap(flag) ==
    IF flag THEN [connecting |-> TRUE, ret |-> "WouldBlock"]
    ELSE [connecting |-> TRUE, ret |-> "go"]

connect_issue_keeps_flag(m, o) ==
    CASE o.kind = "now" ->
           [m |-> m, connecting |-> FALSE, post |-> TRUE, res |-> Res("Ok", 0, "none", <<>>)]
      [] o.kind = "pending" ->
           [m |-> [m EXCEPT !.os.connect = Append(@, Op("pending", 0, "none", <<>>)),
                            !.strong = @ + 1],
            connecting |-> TRUE, post |-> FALSE, res |-> would_block]
      [] OTHER ->
           [m |-> m, connecting |-> TRUE, post |-> FALSE, res |-> Res("Err", 0, o.err, <<>>)]

\* connect(), the match on connect_overlapped's result o.  post tells that
\* post_register is still to run before Ok(()) is returned.
connect_issue(m, o) ==
    CASE o.kind = "now" ->
           [m |-> m, connecting |-> FALSE, post |-> TRUE, res |-> Res("Ok", 0, "none", <<>>)]
      [] o.kind = "pending" ->
           [m |-> [m EXCEPT !.os.connect = Append(@, Op("pending", 0, "none", <<>>)),
                            !.strong = @ + 1],
            connecting |-> TRUE, post |-> FALSE, res |-> would_block]
      [] OTHER ->
           [m |-> m, connecting |-> FALSE, post |-> FALSE, res |-> Res("Err", 0, o.err, <<>>)]

\* take_error(): Option::take on Io.connect_error.
take_error(m) ==
    [m |-> [m EXCEPT !.io.connect_error = "none"],
     res |-> IF m.io.connect_error = "none" THEN Res("Ok", 0, "none", <<>>)
             ELSE Res("Ok", 0, m.io.connect_error, <<>>)]

\* --------------------------------------------------- <NamedPipe as Source>
\* reregister(), up to drop(io): the token is replaced.
reregister(m, token) == [m EXCEPT !.io.token = token]

deregister_resets_read(m) ==
    IF m.io.token = 0 THEN [m |-> m, res |-> Res("NotFound", 0, "none", <<>>)]
    ELSE [m |-> [m EXCEPT !.io.token = 0, !.io.read = StNone],
          res |-> Res("Ok", 0, "none", <<>>)]

\* deregister().
deregister(m) ==
    IF m.io.token = 0 THEN [m |-> m, res |-> Res("NotFound", 0, "none", <<>>)]
    ELSE [m |-> [m EXCEPT !.io.token = 0], res |-> Res("Ok", 0, "none", <<>>)]

\* ----------------------------------------------------- <NamedPipe as Drop>
drop_cancels_write(m, flag) ==
    (IF flag THEN {"connect"} ELSE {})
    \cup (IF m.io.read.tag = "Pending" THEN {"read"} ELSE {})
    \cup (IF m.io.write.tag = "Pending" THEN {"write"} ELSE {})

drop_connect_only(m, flag) == IF flag THEN {"connect"} ELSE {}

\* The slots drop() calls cancel() on.
drop(m, flag) ==
    (IF flag THEN {"connect"} ELSE {})
    \cup (IF m.io.read.tag = "Pending" THEN {"read"} ELSE {})

\* CancelIoEx on a slot: a request still pending is aborted.
cancel(q) ==
    IF q # <<>> /\ q[1].st = "pending"
    THEN [q EXCEPT ![1] = Op("done", 0, ERROR_OTHER, <<>>)]
    ELSE q

\* ---------------------------------------------------- completion handlers
\* read_done: the completion of the read slot's request op.
read_done(m, op) ==
    LET st == m.io.read
        released == [m EXCEPT !.os.read = Tail(@), !.strong = @ - 1]
    IN  IF st.tag # "Pending" THEN released
        ELSE IF op.err = "none"
             THEN notify_readable([released EXCEPT !.io.read = StOk(op.data, 0)])
             ELSE notify_readable([released EXCEPT !.io.read = StErr(op.err)])

\* write_done: the completion of the write slot's request op; o is the
\* kernel's answer should the rest of the buffer be submitted again.
write_done(m, op, o) ==
    LET st == m.io.write
        released == [m EXCEPT !.os.write = Tail(@), !.strong = @ - 1]
        taken == [released EXCEPT !.io.write = StNone]
    IN  CASE st.tag = "Ok" -> notify_writable(taken)
          [] st.tag = "Pending" ->
               IF op.err # "none"
               THEN notify_writable([taken EXCEPT !.io.write = StErr(op.err)])
               ELSE LET new_pos == st.pos + op.n
                    IN  IF new_pos = Len(st.buf)
                        THEN notify_writable(put_buffer(taken, st.buf))
                        ELSE LET s == maybe_schedule_write(taken, st.buf, new_pos, o)
                             IN  CASE s.ret = "Some" ->
                                        [s.m EXCEPT !.io.write = StPending(st.buf, new_pos)]
                                   [] s.ret = "None" -> s.m
                                   [] OTHER ->
                                        notify_writable([s.m EXCEPT !.io.write = StErr(s.err)])
          [] OTHER -> released

\* connect_done: the completion of the connect slot's request op; o is the
\* kernel's answer should a read be submitted.
connect_done(m, op, o) ==
    LET released == [m EXCEPT !.os.connect = Tail(@), !.strong = @ - 1]
    IN  IF op.err # "none"
        THEN [released EXCEPT !.io.connect_error = op.err]
        ELSE post_register(released, o)

\* ------------------------------------------------------------------ calls
\* A call through &NamedPipe may start: the handle exists, some thread is free,
\* and no exclusive (&mut NamedPipe) call is under way.
CanShare(p) ==
    /\ alive[p]
    /\ \E t \in Threads : pc[p][t] = "idle"
    /\ \A t \in Threads : pc[p][t] # "reregister_post"

\* A call through &mut NamedPipe (or its drop) may start: no call is under way.
CanOwn(p) == alive[p] /\ \A t \in Threads : pc[p][t] = "idle"

Read(p, len) ==
    /\ CanShare(p)
    /\ \E o \in ReadOutcomes(p) :
         LET r == read(Core(p), len, o)
         IN  /\ Commit(p, r.m)
             /\ last' = Ret(p, "read", r.res, r.m)
    /\ UNCHANGED <<connecting, poolCap, alive, cancels, pc, link>>

Write(p, buf) ==
    /\ CanShare(p)
    /\ \E o \in WriteOutcomes(p) :
         LET r == write(Core(p), buf, o)
         IN  /\ Commit(p, r.m)
             /\ last' = Ret(p, "write", r.res, r.m)
    /\ UNCHANGED <<connecting, poolCap, alive, cancels, pc, link>>

ConnectSwap(p, t) ==
    /\ CanShare(p)
    /\ pc[p][t] = "idle"
    /\ LET r == connect_swap(connecting[p])
       IN  /\ connecting' = [connecting EXCEPT ![p] = r.connecting]
           /\ IF r.ret = "go"
              THEN /\ pc' = [pc EXCEPT ![p][t] = "connect_issue"]
                   /\ last' = Step(p, "connect_swap")
              ELSE /\ pc' = pc
                   /\ last' = Ret(p, "connect", would_block, Core(p))
    /\ UNCHANGED <<io, pool, poolCap, strong, alive, os, cancels, link, wire>>

ConnectIssue(p, t) ==
    /\ pc[p][t] = "connect_issue"
    /\ \E o \in ConnectOutcomes :
         LET r == connect_issue(Core(p), o)
         IN  /\ Commit(p, r.m)
             /\ connecting' = [connecting EXCEPT ![p] = r.connecting]
             /\ IF r.post
                THEN /\ pc' = [pc EXCEPT ![p][t] = "connect_post"]
                     /\ last' = Step(p, "connect_issue")
                ELSE /\ pc' = [pc EXCEPT ![p][t] = "idle"]
                     /\ last' = Ret(p, "connect", r.res, r.m)
    /\ UNCHANGED <<poolCap, alive, cancels, link>>

ConnectPost(p, t) ==
    /\ pc[p][t] = "connect_post"
    /\ \E o \in ReadOutcomes(p) :
         LET m == post_register(Core(p), o)
         IN  /\ Commit(p, m)
             /\ last' = Ret(p, "connect", Res("Ok", 0, "none", <<>>), m)
    /\ pc' = [pc EXCEPT ![p][t] = "idle"]
    /\ UNCHANGED <<connecting, poolCap, alive, cancels, link>>

TakeError(p) ==
    /\ CanShare(p)
    /\ LET r == take_error(Core(p))
       IN  /\ Commit(p, r.m)
           /\ last' = Ret(p, "take_error", r.res, r.m)
    /\ UNCHANGED <<connecting, poolCap, alive, cancels, pc, link>>

\* disconnect(): DisconnectNamedPipe drops the client and what is unread.
Disconnect(p) ==
    /\ CanShare(p)
    /\ link' = "listening"
    /\ wire' = IF link = "listening" THEN wire ELSE [q \in Pipes |-> <<>>]
    /\ last' = Ret(p, "disconnect", Res("Ok", 0, "none", <<>>), Core(p))
    /\ UNCHANGED <<io, connecting, pool, poolCap, strong, alive, os, cancels, pc>>

Reregister(p, t, token) ==
    /\ CanOwn(p)
    /\ Commit(p, reregister(Core(p), token))
    /\ pc' = [pc EXCEPT ![p][t] = "reregister_post"]
    /\ last' = Step(p, "reregister")
    /\ UNCHANGED <<connecting, poolCap, alive, cancels, link>>

ReregisterPost(p, t) ==
    /\ pc[p][t] = "reregister_post"
    /\ \E o \in ReadOutcomes(p) :
         LET m == post_register(Core(p), o)
         IN  /\ Commit(p, m)
             /\ last' = Ret(p, "reregister", Res("Ok", 0, "none", <<>>), m)
    /\ pc' = [pc EXCEPT ![p][t] = "idle"]
    /\ UNCHANGED <<connecting, poolCap, alive, cancels, link>>

Deregister(p) ==
    /\ CanOwn(p)
    /\ LET r == deregister(Core(p))
       IN  /\ Commit(p, r.m)
           /\ last' = Ret(p, "deregister", r.res, r.m)
    /\ UNCHANGED <<connecting, poolCap, alive, cancels, pc, link>>

Drop(p) ==
    /\ CanOwn(p)
    /\ LET m == Core(p)
           hit == drop(m, connecting[p])
       IN  /\ cancels' = [cancels EXCEPT ![p] = hit]
           /\ os' = [os EXCEPT ![p] =
                       [slot \in DOMAIN m.os |->
                          IF slot \in hit THEN cancel(m.os[slot]) ELSE m.os[slot]]]
           /\ last' = Ret(p, "drop", Res("Ok", 0, "none", <<>>), m)
    /\ alive' = [alive EXCEPT ![p] = FALSE]
    /\ strong' = [strong EXCEPT ![p] = @ - 1]
    /\ UNCHANGED <<io, connecting, pool, poolCap, pc, link, wire>>

\* The poller hands a queued completion packet to its handler.
ReadDone(p) ==
    /\ os[p].read # <<>>
    /\ os[p].read[1].st = "done"
    /\ LET m == read_done(Core(p), os[p].read[1])
       IN  /\ Commit(p, m)
           /\ last' = Ret(p, "read_done", Res("None", 0, "none", <<>>), m)
    /\ UNCHANGED <<connecting, poolCap, alive, cancels, pc, link>>

WriteDone(p) ==
    /\ os[p].write # <<>>
    /\ os[p].write[1].st = "done"
    /\ \E o \in WriteOutcomes(p) :
         LET m == write_done(Core(p), os[p].write[1], o)
         IN  /\ Commit(p, m)
             /\ last' = Ret(p, "write_done", Res("None", 0, "none", <<>>), m)
    /\ UNCHANGED <<connecting, poolCap, alive, cancels, pc, link>>

ConnectDone(p) ==
    /\ os[p].connect # <<>>
    /\ os[p].connect[1].st = "done"
    /\ \E o \in ReadOutcomes(p) :
         LET m == connect_done(Core(p), os[p].connect[1], o)
         IN  /\ Commit(p, m)
             /\ last' = Ret(p, "connect_done", Res("None", 0, "none", <<>>), m)
    /\ connecting' = [connecting EXCEPT ![p] = FALSE]
    /\ UNCHANGED <<poolCap, alive, cancels, pc, link>>

\* ------------------------------------------------------------- the kernel
\* A pending read completes: with bytes from the wire, or with an error once
\* the wire is empty and the pipe is no longer connected.
OsCompleteRead(p) ==
    /\ os[p].read # <<>>
    /\ os[p].read[1].st = "pending"
    /\ IF wire[p] # <<>>
       THEN \E n \in 1..Len(wire[p]) :
              /\ os' = [os EXCEPT ![p].read[1] = Op("done", n, "none", SubSeq(wire[p], 1, n))]
              /\ wire' = [wire EXCEPT ![p] = SubSeq(@, n + 1, Len(@))]
       ELSE /\ link # "connected"
            /\ os' = [os EXCEPT ![p].read[1] =
                        Op("done", 0, IF link = "broken" THEN ERROR_BROKEN_PIPE
                                      ELSE ERROR_OTHER, <<>>)]
            /\ wire' = wire
    /\ last' = EnvStep
    /\ UNCHANGED <<io, connecting, pool, poolCap, strong, alive, cancels, pc, link>>

\* A pending write completes: some of its bytes are transferred, or it fails
\* because the pipe is no longer connected.
OsCompleteWrite(p) ==
    /\ os[p].write # <<>>
    /\ os[p].write[1].st = "pending"
    /\ LET op == os[p].write[1]
       IN  IF link = "connected"
           THEN \E k \in 1..Room(p) :
                  LET n == Min(k, Len(op.data))
                  IN  /\ os' = [os EXCEPT ![p].write[1] =
                                  Op("done", n, "none", SubSeq(op.data, n + 1, Len(op.data)))]
                      /\ wire' = [wire EXCEPT ![Peer(p)] = @ \o SubSeq(op.data, 1, n)]
           ELSE /\ os' = [os EXCEPT ![p].write[1] = Op("done", 0, ERROR_OTHER, op.data)]
                /\ wire' = wire
    /\ last' = EnvStep
    /\ UNCHANGED <<io, connecting, pool, poolCap, strong, alive, cancels, pc, link>>

\* A client opens the pipe; a pending ConnectNamedPipe completes.
EnvClientConnect ==
    /\ link = "listening"
    /\ link' = "connected"
    /\ os' = [os EXCEPT !["server"].connect =
                IF @ # <<>> /\ @[1].st = "pending"
                THEN [@ EXCEPT ![1] = Op("done", 0, "none", <<>>)] ELSE @]
    /\ last' = EnvStep
    /\ UNCHANGED <<io, connecting, pool, poolCap, strong, alive, cancels, pc, wire>>

\* The client closes its handle.
EnvPeerClose ==
    /\ link = "connected"
    /\ link' = "broken"
    /\ last' = EnvStep
    /\ UNCHANGED <<io, connecting, pool, poolCap, strong, alive, os, cancels, pc, wire>>

\* The client writes one byte.
EnvPeerWrite(b) ==
    /\ link = "connected"
    /\ Len(wire["server"]) < MaxWire
    /\ wire' = [wire EXCEPT !["server"] = Append(@, b)]
    /\ last' = EnvStep
    /\ UNCHANGED <<io, connecting, pool, poolCap, strong, alive, os, cancels, pc, link>>

\* The client reads what the server sent.
EnvPeerRead ==
    /\ wire["client"] # <<>>
    /\ wire' = [wire EXCEPT !["client"] = <<>>]
    /\ last' = EnvStep
    /\ UNCHANGED <<io, connecting, pool, poolCap, strong, alive, os, cancels, pc, link>>

\* ------------------------------------------------------- specification
NoHist == [acc |-> <<>>, rcv |-> <<>>]

NoLayout == [base |-> 0, size |-> 1, slot |-> "none", owner |-> 0]

\* Both mutexes free, no thread inside a call.
NoLocks == [io |-> "free", pool |-> "free",
            op |-> [t \in Threads \cup {"poller"} |-> "none"],
            run |-> [t \in Threads \cup {"poller"} |-> <<>>]]

Quiet == UNCHANGED <<hist, layout, locks>>

Init ==
    /\ io = [p \in Pipes |-> IoInit]
    /\ connecting = [p \in Pipes |-> FALSE]
    /\ pool = [p \in Pipes |-> <<>>]
    /\ poolCap = [p \in Pipes |-> MaxPoolCap]
    /\ strong = [p \in Pipes |-> 1]
    /\ alive = [p \in Pipes |-> TRUE]
    /\ os = [p \in Pipes |-> NoOps]
    /\ cancels = [p \in Pipes |-> {}]
    /\ pc = [p \in Pipes |-> [t \in Threads |-> "idle"]]
    /\ link = "listening"
    /\ wire = [p \in Pipes |-> <<>>]
    /\ last = NoCall
    /\ hist = NoHist
    /\ layout = NoLayout
    /\ locks = NoLocks

\* One NamedPipe, the server end, with the client end as its environment.
Next ==
    \/ \E len \in 1..MaxRead : Read("server", len) /\ Quiet
    \/ \E buf \in CallerBufs : Write("server", buf) /\ Quiet
    \/ \E t \in Threads : ConnectSwap("server", t) /\ Quiet
    \/ \E t \in Threads : ConnectIssue("server", t) /\ Quiet
    \/ \E t \in Threads : ConnectPost("server", t) /\ Quiet
    \/ TakeError("server") /\ Quiet
    \/ Disconnect("server") /\ Quiet
    \/ \E t \in Threads, token \in Tokens : Reregister("server", t, token) /\ Quiet
    \/ \E t \in Threads : ReregisterPost("server", t) /\ Quiet
    \/ Deregister("server") /\ Quiet
    \/ Drop("server") /\ Quiet
    \/ ReadDone("server") /\ Quiet
    \/ WriteDone("server") /\ Quiet
    \/ ConnectDone("server") /\ Quiet
    \/ OsCompleteRead("server") /\ Quiet
    \/ OsCompleteWrite("server") /\ Quiet
    \/ EnvClientConnect /\ Quiet
    \/ EnvPeerClose /\ Quiet
    \/ \E b \in Bytes : EnvPeerWrite(b) /\ Quiet
    \/ EnvPeerRead /\ Quiet

Spec == Init /\ [][Next]_vars

\* --------------------------------------------------- buffer pool on its own
\* Any sequence of BufferPool::get and BufferPool::put, on pools of any capacity.
PoolGet(p) ==
    /\ LET r == BufferPool_get(pool[p])
       IN  /\ pool' = [pool EXCEPT ![p] = r.pool]
           /\ last' = [pipe |-> p, op |-> "pool_get", res |-> Res("None", 0, "none", <<>>),
                       ev |-> {}, got |-> <<r.buf>>]
    /\ UNCHANGED <<io, connecting, poolCap, strong, alive, os, cancels, pc, link, wire>>

PoolPut(p, buf) ==
    /\ pool' = [pool EXCEPT ![p] = BufferPool_put(@, poolCap[p], buf)]
    /\ last' = [pipe |-> p, op |-> "pool_put",
                res |-> Res(IF pool' = pool THEN "Discarded" ELSE "Kept", 0, "none", buf),
                ev |-> {}, got |-> <<>>]
    /\ UNCHANGED <<io, connecting, poolCap, strong, alive, os, cancels, pc, link, wire>>

InitPool ==
    /\ io = [p \in Pipes |-> IoInit]
    /\ connecting = [p \in Pipes |-> FALSE]
    /\ pool = [p \in Pipes |-> <<>>]
    /\ poolCap \in [Pipes -> 0..MaxPoolCap]
    /\ strong = [p \in Pipes |-> 1]
    /\ alive = [p \in Pipes |-> TRUE]
    /\ os = [p \in Pipes |-> NoOps]
    /\ cancels = [p \in Pipes |-> {}]
    /\ pc = [p \in Pipes |-> [t \in Threads |-> "idle"]]
    /\ link = "listening"
    /\ wire = [p \in Pipes |-> <<>>]
    /\ last = NoCall
    /\ hist = NoHist
    /\ layout = NoLayout
    /\ locks = NoLocks

NextPool ==
    \/ \E p \in Pipes : PoolGet(p) /\ Quiet
    \/ \E p \in Pipes, buf \in CallerBufs : PoolPut(p, buf) /\ Quiet

SpecPool == InitPool /\ [][NextPool]_vars

\* ------------------------------------------------------------- Inner layout
\* #[repr(C)] struct Inner: the fields in declaration order.
InnerSlots == <<"connect", "read", "write">>

SlotIndex(slot) == CHOOSE i \in DOMAIN InnerSlots : InnerSlots[i] = slot

offset_of_swapped(slot, size) ==
    CASE slot = "connect" -> 0
      [] slot = "read" -> 2 * size
      [] OTHER -> size

\* Offset of a completion slot in Inner: the slots are of one type (Overlapped)
\* and lie one after the other from the start of the struct.
offset_of(slot, size) == (SlotIndex(slot) - 1) * size

\* Inner::ptr_from_conn_overlapped / ptr_from_read_overlapped /
\* ptr_from_write_overlapped: the Inner that owns the slot at address ptr.
ptr_from_conn_overlapped(ptr, size) == ptr

ptr_from_read_overlapped(ptr, size) == ptr - size

ptr_from_write_overlapped(ptr, size) == ptr - 2 * size

\* A completion arrives for the slot, carrying nothing but the slot's address.
LayoutComplete(slot) ==
    /\ LET ptr == layout.base + offset_of(slot, layout.size)
       IN  layout' = [layout EXCEPT
                        !.slot = slot,
                        !.owner = CASE slot = "connect" -> ptr_from_conn_overlapped(ptr, layout.size)
                                    [] slot = "read" -> ptr_from_read_overlapped(ptr, layout.size)
                                    [] OTHER -> ptr_from_write_overlapped(ptr, layout.size)]
    /\ UNCHANGED <<io, connecting, pool, poolCap, strong, alive, os, cancels, pc, link,
                   wire, last, hist, locks>>

InitLayout ==
    /\ io = [p \in Pipes |-> IoInit]
    /\ connecting = [p \in Pipes |-> FALSE]
    /\ pool = [p \in Pipes |-> <<>>]
    /\ poolCap = [p \in Pipes |-> MaxPoolCap]
    /\ strong = [p \in Pipes |-> 1]
    /\ alive = [p \in Pipes |-> TRUE]
    /\ os = [p \in Pipes |-> NoOps]
    /\ cancels = [p \in Pipes |-> {}]
    /\ pc = [p \in Pipes |-> [t \in Threads |-> "idle"]]
    /\ link = "listening"
    /\ wire = [p \in Pipes |-> <<>>]
    /\ last = NoCall
    /\ hist = NoHist
    /\ layout \in [base : 0..MaxBase, size : 1..MaxSlotSize, slot : {"none"}, owner : {0}]
    /\ locks = NoLocks

NextLayout ==
    \/ LayoutComplete("connect")
    \/ LayoutComplete("read")
    \/ LayoutComplete("write")

SpecLayout == InitLayout /\ [][NextLayout]_vars

\* ------------------------------------------------------------ round trip
\* Both ends are NamedPipes on a connected pipe.  The server writes the stream
\* 1, 2, .., MaxStream in pieces of any length, resuming after the last byte
\* write() reported as accepted; the client reads with buffers of any length.
Stream(from, k) == [i \in 1..k |-> from + i]

RtWrite(k) ==
    /\ Len(hist.acc) + k <= MaxStream
    /\ LET buf == Stream(Len(hist.acc), k)
       IN  /\ Write("server", buf)
           /\ hist' = [hist EXCEPT !.acc = IF last'.res.tag = "Ok"
                                           THEN @ \o SubSeq(buf, 1, last'.res.n) ELSE @]
    /\ UNCHANGED <<layout, locks>>

RtRead(len) ==
    /\ Read("client", len)
    /\ hist' = [hist EXCEPT !.rcv = IF last'.res.tag = "Ok" THEN @ \o last'.res.data ELSE @]
    /\ UNCHANGED <<layout, locks>>

InitRT ==
    /\ io = [p \in Pipes |-> IoInit]
    /\ connecting = [p \in Pipes |-> FALSE]
    /\ pool = [p \in Pipes |-> <<>>]
    /\ poolCap = [p \in Pipes |-> MaxPoolCap]
    /\ strong = [p \in Pipes |-> 1]
    /\ alive = [p \in Pipes |-> TRUE]
    /\ os = [p \in Pipes |-> NoOps]
    /\ cancels = [p \in Pipes |-> {}]
    /\ pc = [p \in Pipes |-> [t \in Threads |-> "idle"]]
    /\ link = "connected"
    /\ wire = [p \in Pipes |-> <<>>]
    /\ last = NoCall
    /\ hist = NoHist
    /\ layout = NoLayout
    /\ locks = NoLocks

NextRT ==
    \/ \E k \in 1..MaxWrite : RtWrite(k)
    \/ \E len \in 1..MaxRead : RtRead(len)
    \/ \E p \in Pipes, token \in Tokens : Reregister(p, "t1", token) /\ Quiet
    \/ \E p \in Pipes : ReregisterPost(p, "t1") /\ Quiet
    \/ \E p \in Pipes : Deregister(p) /\ Quiet
    \/ Drop("server") /\ Quiet
    \/ \E p \in Pipes : ReadDone(p) /\ Quiet
    \/ \E p \in Pipes : WriteDone(p) /\ Quiet
    \/ \E p \in Pipes : OsCompleteRead(p) /\ Quiet
    \/ \E p \in Pipes : OsCompleteWrite(p) /\ Quiet

SpecRT == InitRT /\ [][NextRT]_vars

\* ------------------------------------------------------------ properties
\* Extra (phantom) references: the strong count less the handle's own one.
Phantom(p) == strong[p] - (IF alive[p] THEN 1 ELSE 0)

\* Requests submitted whose completion no handler has taken yet.
InFlight(p) == Len(os[p].connect) + Len(os[p].read) + Len(os[p].write)

\* C1: on a pipe whose token is absent every read() and every write() returns
\* WouldBlock and leaves the Io state, the buffer pool, the submitted operations
\* (and with them the reference count and the wire) unchanged, whatever the
\* read-state and write-state are.
C1_NotReadyLeavesState ==
    [][\A p \in Pipes :
         (last'.pipe = p /\ last'.op \in {"read", "write"} /\ io[p].token = 0)
         => /\ last'.res = would_block
            /\ io'[p] = io[p]
            /\ pool'[p] = pool[p]
            /\ os'[p] = os[p]
            /\ strong'[p] = strong[p]
            /\ wire' = wire]_vars

\* A read() just returned WouldBlock on a deregistered pipe that holds unread
\* data and a write error.
C1_Witness ==
    /\ last.pipe = "server" /\ last.op = "read" /\ last.res = would_block
    /\ io["server"].token = 0
    /\ io["server"].read.tag = "Ok"
    /\ io["server"].read.pos < Len(io["server"].read.buf)
    /\ io["server"].write.tag = "Err"

\* C3: at most one connect request is submitted and uncompleted on the connect
\* slot, and it is there only while the flag is set; a connect() entered while
\* the flag is set returns WouldBlock, submits nothing, retains no reference
\* and leaves the flag set; a request leaves the slot only through a connect
\* completion, which takes exactly that one request and clears the flag.
C3_SingleConnect ==
    /\ [](\A p \in Pipes :
            /\ Len(os[p].connect) <= 1
            /\ (os[p].connect # <<>> => connecting[p]))
    /\ [][\A p \in Pipes :
            /\ ( /\ last'.pipe = p
                 /\ connecting[p]
                 /\ \/ last'.op = "connect_swap"
                    \/ last'.op = "connect" /\ pc' = pc )
               => /\ last'.op = "connect"
                  /\ last'.res = would_block
                  /\ os'[p] = os[p]
                  /\ strong'[p] = strong[p]
                  /\ connecting'[p]
            /\ (Len(os'[p].connect) < Len(os[p].connect))
               => /\ last'.op = "connect_done"
                  /\ os[p].connect[1].st = "done"
                  /\ os'[p].connect = Tail(os[p].connect)
                  /\ ~connecting'[p]]_vars

\* Two threads are inside connect(): one still to issue its request, while the
\* other has just been turned away.
C3_Witness ==
    /\ last.pipe = "server" /\ last.op = "connect" /\ last.res = would_block
    /\ connecting["server"]
    /\ \E t \in Threads : pc["server"][t] = "connect_issue"

\* C4: connect() on a pipe without a token returns WouldBlock and declares
\* nothing writable.
C4_ConnectUnregisteredWouldBlock ==
    \A p \in Pipes :
        (last.pipe = p /\ last.op = "connect" /\ io[p].token = 0)
        => /\ last.res = would_block
           /\ "writable" \notin last.ev

\* C5: on an associated pipe a write() issued while the write-state is Pending
\* or Ok returns WouldBlock, submits nothing and leaves the write-state of the
\* first write (and the rest of the pipe's state) unchanged.
C5_WriteRejectedWhileOutstanding ==
    [][\A p \in Pipes :
         ( /\ last'.pipe = p /\ last'.op = "write"
           /\ io[p].token # 0
           /\ io[p].write.tag \in {"Pending", "Ok"} )
         => /\ last'.res = would_block
            /\ io'[p] = io[p]
            /\ os'[p] = os[p]
            /\ pool'[p] = pool[p]
            /\ strong'[p] = strong[p]
            /\ wire' = wire]_vars

\* A second write() was just turned away while the first one's bytes wait in
\* a Pending write-state.
C5_Witness ==
    /\ last.pipe = "server" /\ last.op = "write" /\ last.res = would_block
    /\ io["server"].token # 0
    /\ io["server"].write.tag = "Pending"
    /\ io["server"].write.buf # <<>>
    /\ os["server"].write # <<>>

\* C6 as stated: once a read() has reported the broken pipe as Ok(0), the
\* read-state does not hold that failure again, so that the next read() does
\* not report Ok(0) for the same closure.
C6_EofExactlyOnce ==
    \A p \in Pipes :
        (last.pipe = p /\ last.op = "read" /\ last.res.tag = "Ok" /\ last.res.n = 0)
        => io[p].read # StErr(ERROR_BROKEN_PIPE)

\* C6 as amended: a read() that finds Failed(ERROR_BROKEN_PIPE) returns Ok(0),
\* never an error, and has tried to schedule the next read before it returns:
\* the read-state it leaves is Pending with one more read submitted, or Failed
\* again (declared readable) because the kernel refused the new read, or None
\* only if the kernel reports that no client is connected.
C6_BrokenPipeIsEof ==
    [][\A p \in Pipes :
         ( /\ last'.pipe = p /\ last'.op = "read"
           /\ io[p].token # 0
           /\ io[p].read = StErr(ERROR_BROKEN_PIPE) )
         => /\ last'.res = Res("Ok", 0, "none", <<>>)
            /\ CASE io'[p].read.tag = "Pending" ->
                      /\ os'[p].read = Append(os[p].read, Op("pending", 0, "none", <<>>))
                      /\ strong'[p] = strong[p] + 1
                 [] io'[p].read.tag = "Err" ->
                      /\ link # "connected"
                      /\ "readable" \in last'.ev
                      /\ os'[p] = os[p]
                 [] io'[p].read.tag = "None" ->
                      /\ link = "listening"
                      /\ os'[p] = os[p]
                 [] OTHER -> FALSE]_vars

\* A read() has just reported the broken pipe as Ok(0) and the next read is
\* pending.
C6_Witness ==
    /\ last.pipe = "server" /\ last.op = "read"
    /\ last.res = Res("Ok", 0, "none", <<>>)
    /\ io["server"].read.tag = "Pending"

\* C7: the phantom references of an engine core are as many as its submitted
\* operations whose completion has not been handled, so that the core is not
\* freed (its strong count stays above zero) while an operation is in flight,
\* dropped handle or not.
C7_PhantomDiscipline ==
    \A p \in Pipes :
        /\ Phantom(p) = InFlight(p)
        /\ (InFlight(p) > 0 => strong[p] > 0)

\* The handle is dropped, a read and a write are in flight, and two phantom
\* references keep the core.
C7_Witness ==
    /\ ~alive["server"]
    /\ os["server"].read # <<>>
    /\ os["server"].write # <<>>
    /\ strong["server"] = 2

\* C8: dropping the pipe cancels the connect slot iff the connecting flag is
\* set, the read slot iff the read-state is Pending, and never the write slot;
\* the write slot's request is left as it was.
C8_TeardownAsymmetry ==
    [][\A p \in Pipes :
         (last'.pipe = p /\ last'.op = "drop")
         => /\ ("connect" \in cancels'[p]) = connecting[p]
            /\ ("read" \in cancels'[p]) = (io[p].read.tag = "Pending")
            /\ "write" \notin cancels'[p]
            /\ os'[p].write = os[p].write]_vars

\* The pipe was just dropped with a write pending and no read pending: nothing
\* was cancelled.
C8_Witness ==
    /\ last.pipe = "server" /\ last.op = "drop"
    /\ io["server"].write.tag = "Pending"
    /\ os["server"].write # <<>>
    /\ os["server"].write[1].st = "pending"
    /\ io["server"].read.tag # "Pending"
    /\ cancels["server"] = {}

\* Bytes of the stream that end p holds in its read-state and has not yet
\* handed to a caller.
Unread(p) ==
    IF io[p].read.tag = "Ok"
    THEN SubSeq(io[p].read.buf, io[p].read.pos + 1, Len(io[p].read.buf))
    ELSE <<>>

\* Bytes a completed read has put into p's buffer, its completion not yet handled.
Arrived(p) ==
    IF os[p].read # <<>> /\ os[p].read[1].st = "done" THEN os[p].read[1].data ELSE <<>>

\* Bytes of a queued write of p that the kernel has not transferred yet.
Unsent(p) ==
    IF io[p].write.tag = "Pending" /\ os[p].write # <<>>
    THEN SubSeq(io[p].write.buf, io[p].write.pos + os[p].write[1].n + 1,
                Len(io[p].write.buf))
    ELSE <<>>

\* C2: the bytes write() has reported as accepted are, in order and each once,
\* the bytes read() has returned on the peer followed by those still on their
\* way (unread in the peer's buffer, arrived, on the wire, not yet sent); hence
\* once nothing is on its way the bytes read are exactly the bytes accepted.
C2_RoundTrip ==
    /\ hist.acc = hist.rcv \o Unread("client") \o Arrived("client")
                    \o wire["client"] \o Unsent("server")
    /\ ( /\ Unread("client") = <<>> /\ Arrived("client") = <<>>
         /\ wire["client"] = <<>> /\ Unsent("server") = <<>> )
       => /\ hist.rcv = hist.acc
          /\ Len(hist.rcv) = Len(hist.acc)

\* The whole stream was accepted and read back; the last read() returned but
\* a part of what was left.
C2_Witness ==
    /\ Len(hist.acc) = MaxStream
    /\ hist.rcv = hist.acc
    /\ last.op = "read" /\ last.res.tag = "Ok" /\ last.res.n = 1

\* C9: the owner address recovered from a completion's slot address is the
\* address of the Inner that holds the slot, for each of the three slots, and
\* the slots lie in the order connect < read < write from offset 0.
C9_LayoutRecoversOwner ==
    /\ layout.slot # "none" => layout.owner = layout.base
    /\ offset_of("connect", layout.size) = 0
    /\ offset_of("connect", layout.size) < offset_of("read", layout.size)
    /\ offset_of("read", layout.size) < offset_of("write", layout.size)

\* The owner was recovered from the write slot of an Inner placed off zero.
C9_Witness ==
    /\ layout.slot = "write"
    /\ layout.base = MaxBase
    /\ layout.size = MaxSlotSize
    /\ layout.owner = layout.base

\* C10: a pool never holds more buffers than its capacity, a put on a full
\* pool leaves it as it was, and every buffer got from it has length 0.
C10_PoolBound ==
    /\ [](\A p \in Pipes :
            /\ Len(pool[p]) <= poolCap[p]
            /\ \A i \in DOMAIN pool[p] : Len(pool[p][i]) = 0
            /\ \A i \in DOMAIN last.got : Len(last.got[i]) = 0)
    /\ [][\A p \in Pipes :
            (last'.pipe = p /\ last'.op = "pool_put" /\ Len(pool[p]) = poolCap[p])
            => pool' = pool]_vars

\* A buffer with bytes in it was just put on a full pool and discarded.
C10_Witness ==
    /\ last.op = "pool_put" /\ last.res.tag = "Discarded"
    /\ last.res.data # <<>>
    /\ poolCap[last.pipe] = MaxPoolCap
    /\ Len(pool[last.pipe]) = MaxPoolCap

\* C11: a write() on an associated pipe whose write-state is None, when the
\* kernel accepts the submission, leaves a write-state holding exactly the
\* caller's bytes at offset 0, whatever the pooled buffer was used for before,
\* with one more request on the write slot and one more phantom reference; if
\* n bytes were taken at once the state is Ok(buffer, 0), the call returns n
\* and those n bytes are on the wire; if the request was queued the state is
\* Pending(buffer, 0) and the call returns the length of the caller's buffer.
C11_WriteSubmission ==
    [][\A k \in 1..MaxWrite :
         ( /\ RtWrite(k)
           /\ io["server"].token # 0
           /\ io["server"].write.tag = "None"
           /\ last'.res.tag = "Ok" )
         => LET buf == Stream(Len(hist.acc), k)
                st == io'["server"].write
                q == os'["server"].write
            IN  /\ st.buf = buf
                /\ st.pos = 0
                /\ strong'["server"] = strong["server"] + 1
                /\ Len(q) = Len(os["server"].write) + 1
                /\ \/ /\ st.tag = "Ok"
                      /\ q[Len(q)].st = "done"
                      /\ last'.res.n = q[Len(q)].n
                      /\ last'.res.n \in 1..Len(buf)
                      /\ wire'["client"] = wire["client"] \o SubSeq(buf, 1, last'.res.n)
                   \/ /\ st.tag = "Pending"
                      /\ q[Len(q)] = Op("pending", 0, "none", buf)
                      /\ last'.res.n = Len(buf)
                      /\ wire' = wire]_vars

\* A write() of two bytes was queued whole, after an earlier write's byte had
\* already been read on the other end.
C11_Witness ==
    /\ last.pipe = "server" /\ last.op = "write"
    /\ last.res = Res("Ok", 2, "none", <<>>)
    /\ io["server"].write = StPending(<<2, 3>>, 0)
    /\ last.got = << <<>> >>
    /\ pool["server"] = <<>>
    /\ hist.rcv = <<1>>

\* C12: each of the read slot and the write slot carries at most one request
\* whose completion has not been handled, and carries one exactly while its
\* direction's state says so (read-state Pending; write-state Pending or Ok).
\* A read is submitted only by a step that found the read-state None or took
\* it in that same step (read() consuming the last data or an error); a write
\* is submitted only from write-state None, or by the write completion that
\* has just taken the finished request and its Pending state.
C12_OnePerDirection ==
    /\ [](\A p \in Pipes :
            /\ Len(os[p].read) <= 1
            /\ Len(os[p].write) <= 1
            /\ (os[p].read # <<>>) = (io[p].read.tag = "Pending")
            /\ (os[p].write # <<>>) = (io[p].write.tag \in {"Pending", "Ok"}))
    /\ [][\A p \in Pipes :
            /\ (Len(os'[p].read) > Len(os[p].read))
               => /\ os[p].read = <<>>
                  /\ \/ io[p].read.tag = "None"
                     \/ /\ last'.op = "read"
                        /\ io[p].read.tag \in {"Ok", "Err"}
                  /\ os'[p].read = <<Op("pending", 0, "none", <<>>)>>
            /\ ( /\ os'[p].write # <<>>
                 /\ \/ Len(os'[p].write) > Len(os[p].write)
                    \/ last'.pipe = p /\ last'.op = "write_done" )
               => \/ io[p].write.tag = "None" /\ os[p].write = <<>>
                  \/ /\ last'.op = "write_done"
                     /\ io[p].write.tag = "Pending"
                     /\ Len(os[p].write) = 1
                     /\ os[p].write[1].st = "done"]_vars

\* A read and a write are in flight at once, a second write() has just been
\* turned away, and another thread stands before post_register, which will
\* find the read-state Pending and submit nothing.
C12_Witness ==
    /\ os["server"].read # <<>> /\ os["server"].read[1].st = "pending"
    /\ os["server"].write # <<>> /\ os["server"].write[1].st = "pending"
    /\ last.pipe = "server" /\ last.op = "write" /\ last.res = would_block
    /\ \E t \in Threads : pc["server"][t] = "connect_post"

\* The step just taken ran Inner::post_register on p: the second half of
\* reregister(), the end of an immediately successful connect(), or the
\* completion of a connect that succeeded.
PostRegisterRan(p) ==
    /\ last'.pipe = p
    /\ \/ last'.op = "reregister" /\ \E t \in Threads : pc[p][t] = "reregister_post"
       \/ last'.op = "connect" /\ \E t \in Threads : pc[p][t] = "connect_post" /\ pc'[p][t] = "idle"
       \/ last'.op = "connect_done" /\ os[p].connect[1].err = "none"

C14_ReadCursor ==
    /\ [](\A p \in Pipes :
            io[p].read.tag = "Ok" => io[p].read.pos <= Len(io[p].read.buf))
    /\ [][\A p \in Pipes :
            /\ (last'.pipe = p /\ last'.op = "read")
               => ~(io'[p].read.tag = "Ok" /\ io'[p].read.pos = Len(io'[p].read.buf))
            /\ ( /\ last'.pipe = p /\ last'.op = "read"
                 /\ io[p].token # 0
                 /\ io[p].read.tag = "Ok"
                 /\ last'.res.tag = "Ok"
                 /\ io[p].read.pos + last'.res.n = Len(io[p].read.buf) )
               => /\ last'.res.data = SubSeq(io[p].read.buf, io[p].read.pos + 1,
                                             Len(io[p].read.buf))
                  /\ pool'[p] = BufferPool_get(
                                    BufferPool_put(pool[p], poolCap[p], io[p].read.buf)).pool
                  /\ last'.got = << <<>> >>
                  /\ CASE io'[p].read.tag = "Pending" ->
                            /\ io'[p].read = StPending(<<>>, 0)
                            /\ os'[p].read = <<Op("pending", 0, "none", <<>>)>>
                       [] io'[p].read.tag = "Err" ->
                            /\ link = "broken"
                            /\ "readable" \in last'.ev
                            /\ os'[p].read = <<>>
                       [] io'[p].read.tag = "None" ->
                            /\ link = "listening"
                            /\ os'[p].read = <<>>
                       [] OTHER -> FALSE]_vars

\* A read() with a one-byte buffer has just taken the second and last byte of
\* the data; the next read is pending.
C14_Witness ==
    /\ last.pipe = "server" /\ last.op = "read"
    /\ last.res = Res("Ok", 1, "none", <<1>>)
    /\ last.got = << <<>> >>
    /\ io["server"].read = StPending(<<>>, 0)
    /\ os["server"].read = <<Op("pending", 0, "none", <<>>)>>
    /\ wire["server"] = <<>>
    /\ link = "connected"

\* C15: a run of post_register declares the pipe writable exactly when the
\* read scheduling reports a read as active (the read-state was already other
\* than None, or is now Pending, or now holds a stored error) and the
\* write-state is None; it declares nothing writable when the kernel answered
\* that no client is connected, nor while the write-state is Pending, Ok or
\* Err; and it leaves the write-state as it found it.
C15_PostRegisterWritable ==
    [][\A p \in Pipes :
         PostRegisterRan(p)
         => LET active == \/ io[p].read.tag # "None"
                          \/ io'[p].read.tag \in {"Pending", "Err"}
            IN  /\ ("writable" \in last'.ev) = (active /\ io[p].write.tag = "None")
                /\ (io[p].read.tag = "None" /\ link = "listening")
                   => (~active /\ "writable" \notin last'.ev /\ io'[p].read.tag = "None")
                /\ io[p].write.tag \in {"Pending", "Ok", "Err"} => "writable" \notin last'.ev
                /\ io'[p].write = io[p].write]_vars

\* reregister() has just returned on a pipe whose other end is gone: the read
\* could not be submitted, its error is stored and declared readable, and with
\* the write-state None the pipe is declared writable as well.
C15_Witness ==
    /\ last.pipe = "server" /\ last.op = "reregister" /\ last.res.tag = "Ok"
    /\ last.ev = {"readable", "writable"}
    /\ io["server"].read = StErr(ERROR_BROKEN_PIPE)
    /\ io["server"].write.tag = "None"

\* C16 as stated: when connect() has returned Ok(()) or an OS error the flag is
\* clear, and the flag is set exactly while a connect request is outstanding
\* or a connect() call is executing.
C16_FlagWhileExecuting ==
    \A p \in Pipes :
        /\ (last.pipe = p /\ last.op = "connect" /\ last.res.tag \in {"Ok", "Err"})
           => ~connecting[p]
        /\ connecting[p] = \/ os[p].connect # <<>>
                           \/ \E t \in Threads :
                                 pc[p][t] \in {"connect_issue", "connect_post"}

\* C16 as amended: the flag is set exactly while a connect request is
\* outstanding or a connect() call stands between its swap and its match on
\* the kernel's answer.  That match clears the flag and retains nothing on
\* immediate success (before post_register runs) and on an OS error, and on a
\* pending request keeps the flag set, submits the one request and retains one
\* reference; post_register inside connect() touches neither flag nor connect
\* slot.  The flag falls only in that match or in the connect completion, and
\* a connect() passes the swap whenever the flag is clear.
C16_FlagLifecycle ==
    /\ [](\A p \in Pipes :
            connecting[p] = \/ os[p].connect # <<>>
                            \/ \E t \in Threads : pc[p][t] = "connect_issue")
    /\ [][\A p \in Pipes :
            /\ \A t \in Threads :
                 (pc[p][t] = "connect_issue" /\ pc'[p][t] # "connect_issue")
                 => CASE pc'[p][t] = "connect_post" ->
                           /\ ~connecting'[p]
                           /\ os'[p] = os[p] /\ strong'[p] = strong[p]
                      [] last'.res.tag = "Err" ->
                           /\ last'.op = "connect"
                           /\ ~connecting'[p]
                           /\ os'[p] = os[p] /\ strong'[p] = strong[p]
                      [] OTHER ->
                           /\ last'.op = "connect" /\ last'.res = would_block
                           /\ connecting'[p]
                           /\ os'[p].connect = <<Op("pending", 0, "none", <<>>)>>
                           /\ strong'[p] = strong[p] + 1
            /\ \A t \in Threads :
                 (pc[p][t] = "connect_post" /\ pc'[p][t] = "idle")
                 => /\ last'.op = "connect" /\ last'.res.tag = "Ok"
                    /\ connecting'[p] = connecting[p]
                    /\ os'[p].connect = os[p].connect
            /\ (connecting[p] /\ ~connecting'[p])
               => \/ \E t \in Threads : pc[p][t] = "connect_issue" /\ pc'[p][t] # "connect_issue"
                  \/ last'.op = "connect_done" /\ Len(os[p].connect) = 1
            /\ (last'.pipe = p /\ last'.op \in {"connect_swap", "connect"} /\ ~connecting[p])
               => \/ last'.op = "connect_swap" /\ connecting'[p]
                  \/ \E t \in Threads : pc[p][t] = "connect_post" /\ pc'[p][t] = "idle"]_vars

\* connect() has just returned an OS error with the flag clear and nothing
\* retained for it: the one extra reference belongs to the read in flight.
C16_Witness ==
    /\ last.pipe = "server" /\ last.op = "connect" /\ last.res.tag = "Err"
    /\ ~connecting["server"]
    /\ os["server"].connect = <<>>
    /\ io["server"].read.tag = "Pending"
    /\ strong["server"] = 2
    /\ \A t \in Threads : pc["server"][t] = "idle"

\* C17: on an associated pipe whose write-state is Err(e), write() returns e,
\* sets the write-state to None and does nothing else: no buffer is checked
\* out, nothing is submitted, no reference is retained, no byte reaches the
\* wire.  The error is thereby reported once: a write() that finds the
\* write-state None never reports a stored error, it checks out a buffer and
\* submits, and what it returns is the outcome of that submission.
C17_WriteErrorConsumed ==
    [][\A p \in Pipes :
         /\ ( /\ last'.pipe = p /\ last'.op = "write"
              /\ io[p].token # 0
              /\ io[p].write.tag = "Err" )
            => /\ last'.res = Res("Err", 0, io[p].write.err, <<>>)
               /\ io'[p] = [io[p] EXCEPT !.write = StNone]
               /\ os'[p] = os[p]
               /\ pool'[p] = pool[p]
               /\ strong'[p] = strong[p]
               /\ last'.got = <<>>
               /\ last'.ev = {}
               /\ wire' = wire
         /\ ( /\ last'.pipe = p /\ last'.op = "write"
              /\ io[p].token # 0
              /\ io[p].write.tag = "None" )
            => /\ last'.got = << <<>> >>
               /\ \/ /\ last'.res.tag = "Ok"
                     /\ io'[p].write.tag \in {"Pending", "Ok"}
                     /\ Len(os'[p].write) = 1
                  \/ /\ last'.res.tag = "Err"
                     /\ link # "connected"]_vars

\* write() has just handed out the error of an earlier, queued write; the
\* write-state is None again, nothing was checked out and nothing is in flight
\* on the write slot, and a client is connected once more.
C17_Witness ==
    /\ last.pipe = "server" /\ last.op = "write"
    /\ last.res = Res("Err", 0, ERROR_OTHER, <<>>)
    /\ last.got = <<>>
    /\ io["server"].token # 0
    /\ io["server"].write = StNone
    /\ os["server"].write = <<>>
    /\ link = "connected"

\* C18: when the kernel refuses the submission of a write() made from
\* write-state None on an associated pipe, write() returns that error and the
\* Io state is as before (write-state None), no request is on any slot that
\* was not there, no reference is retained, nothing reaches the wire and
\* nothing is declared ready; only the buffer checked out for the call is gone
\* from the pool.
C18_WriteSubmitFailure ==
    [][\A p \in Pipes :
         ( /\ last'.pipe = p /\ last'.op = "write"
           /\ io[p].token # 0
           /\ io[p].write.tag = "None"
           /\ last'.res.tag = "Err" )
         => /\ link # "connected"
            /\ last'.res = Res("Err", 0, ERROR_OTHER, <<>>)
            /\ io'[p] = io[p]
            /\ os'[p] = os[p]
            /\ os'[p].write = <<>>
            /\ strong'[p] = strong[p]
            /\ Phantom(p) = InFlight(p)
            /\ wire' = wire
            /\ last'.ev = {}
            /\ pool'[p] = BufferPool_get(pool[p]).pool]_vars

\* write() has just returned the kernel's refusal: a buffer had been checked
\* out, the write-state is None, the write slot is empty, and the one extra
\* reference belongs to the read in flight.
C18_Witness ==
    /\ last.pipe = "server" /\ last.op = "write"
    /\ last.res = Res("Err", 0, ERROR_OTHER, <<>>)
    /\ last.got = << <<>> >>
    /\ io["server"].token # 0
    /\ io["server"].write = StNone
    /\ os["server"].write = <<>>
    /\ os["server"].read # <<>>
    /\ strong["server"] = 2

\* C19: deregister() on a pipe without a token returns NotFound and changes
\* nothing; on a pipe with a token it returns Ok, clears the token and leaves
\* read-state, write-state, the deferred connect error, the requests in
\* flight, the reference count, the flag and the pool as they were.  Data held
\* as Ok(buffer, cursor) stays as it is through every step, token or not,
\* until a read() under a token takes bytes from it, and that read() returns
\* the unread bytes from the cursor on.
C19_Deregister ==
    [][\A p \in Pipes :
         /\ (last'.pipe = p /\ last'.op = "deregister")
            => /\ IF io[p].token = 0
                  THEN last'.res.tag = "NotFound" /\ io'[p] = io[p]
                  ELSE last'.res.tag = "Ok" /\ io'[p] = [io[p] EXCEPT !.token = 0]
               /\ os'[p] = os[p]
               /\ strong'[p] = strong[p]
               /\ pool'[p] = pool[p]
               /\ connecting'[p] = connecting[p]
               /\ wire' = wire
               /\ last'.ev = {}
         /\ (io[p].read.tag = "Ok" /\ io'[p].read # io[p].read)
            => /\ last'.pipe = p /\ last'.op = "read"
               /\ io[p].token # 0
         /\ (last'.pipe = p /\ last'.op = "read" /\ io[p].token # 0 /\ io[p].read.tag = "Ok")
            => /\ last'.res.tag = "Ok"
               /\ last'.res.n >= 1
               /\ last'.res.data = SubSeq(io[p].read.buf, io[p].read.pos + 1,
                                          io[p].read.pos + last'.res.n)]_vars

\* deregister() has just cleared the token of a pipe that holds unread data
\* and has a write in flight.
C19_Witness ==
    /\ last.pipe = "server" /\ last.op = "deregister" /\ last.res.tag = "Ok"
    /\ io["server"].token = 0
    /\ io["server"].read.tag = "Ok"
    /\ Unread("server") # <<>>
    /\ io["server"].write.tag = "Pending"
    /\ os["server"].write # <<>>
    /\ strong["server"] = 2

\* C20 as stated: the teardown step runs only when the last reference to the
\* engine core is released, so that when drop() has just run no reference is
\* left and no operation holds a phantom reference.
C20_TeardownAtLastRelease ==
    \A p \in Pipes :
        (last.pipe = p /\ last.op = "drop")
        => /\ strong[p] = 0
           /\ InFlight(p) = 0

\* C20 as amended: the teardown step runs when the NamedPipe handle is dropped,
\* once, whatever phantom references are retained.  It releases the handle's
\* own reference and no other, and cancels exactly the connect and the read in
\* flight, each of which still holds its phantom reference and stays on its
\* slot for its completion to be handled; so whenever it cancels anything the
\* engine core is still referenced.  The core is left without a reference only
\* after the handle is dropped and every operation's completion is handled.
C20_TeardownAtHandleDrop ==
    /\ [](\A p \in Pipes : strong[p] = 0 => (~alive[p] /\ InFlight(p) = 0))
    /\ [][\A p \in Pipes :
            /\ (last'.pipe = p /\ last'.op = "drop")
               => /\ alive[p] /\ ~alive'[p]
                  /\ strong'[p] = strong[p] - 1
                  /\ strong'[p] = InFlight(p)
                  /\ cancels'[p] = {slot \in {"connect", "read"} : os[p][slot] # <<>>}
                  /\ \A slot \in cancels'[p] :
                       /\ Len(os'[p][slot]) = 1
                       /\ os'[p][slot][1].st = "done"
                  /\ cancels'[p] # {} => strong'[p] >= Cardinality(cancels'[p])
                  /\ io'[p] = io[p]
            /\ (cancels'[p] # cancels[p] \/ alive'[p] # alive[p])
               => last'.pipe = p /\ last'.op = "drop"]_vars

\* The handle has just been dropped with a connect and a read in flight: both
\* were cancelled, and their two phantom references keep the engine core.
C20_Witness ==
    /\ last.pipe = "server" /\ last.op = "drop"
    /\ ~alive["server"]
    /\ cancels["server"] = {"connect", "read"}
    /\ strong["server"] = 2
    /\ os["server"].connect # <<>>
    /\ os["server"].read # <<>>

\* ------------------------------------------------------------------ locking
\* The Mutex around Inner.io and the Mutex around Inner.pool, as the calls and
\* the completion handlers take and release them.  A call is the sequence of
\* its lock and unlock steps, one sequence per path through its code; a Mutex
\* is not re-entrant, so a thread that asks for a lock it holds waits for ever.
LockThreads == Threads \cup {"poller"}

Acq(l) == [do |-> "acq", lock |-> l]

Rel(l) == [do |-> "rel", lock |-> l]

\* Inner::get_buffer / Inner::put_buffer: the pool's guard lives for the one
\* statement.
pool_locks == <<Acq("pool"), Rel("pool")>>

\* Inner::schedule_read, called with Io locked: returns at once, or checks out
\* a buffer.
schedule_read_locks == {<<>>, pool_locks}

\* Inner::post_register: locks Io, schedules the read, unlocks on return.
post_register_locks == {<<Acq("io")>> \o s \o <<Rel("io")>> : s \in schedule_read_locks}

\* read(): Io is locked for the whole call; the Ok arm that empties the data
\* puts the buffer back and schedules a read, the Err arm schedules a read
\* (the read-state is None by then, so a buffer is checked out).
read_locks ==
    {<<Acq("io")>> \o body \o <<Rel("io")>> :
        body \in {<<>>, pool_locks \o pool_locks, pool_locks}}

\* write(): Io is locked for the whole call; a buffer is checked out once the
\* write-state is found None.
write_locks == {<<Acq("io")>> \o body \o <<Rel("io")>> : body \in {<<>>, pool_locks}}

\* connect(): takes no lock itself; Ok(true) runs post_register.
connect_locks == {<<>>} \cup post_register_locks

\* take_error(): the guard lives for the one statement.
take_error_locks == {<<Acq("io"), Rel("io")>>}

reregister_locks_held == {<<Acq("io")>> \o post \o <<Rel("io")>> : post \in post_register_locks}

\* reregister(): locks Io, stores the token, drop(io), then post_register;
\* or returns early, unlocking, when check_association fails.
reregister_locks ==
    {<<Acq("io"), Rel("io")>>}
    \cup {<<Acq("io"), Rel("io")>> \o post : post \in post_register_locks}

\* deregister(): Io is locked for the whole call.
deregister_locks == {<<Acq("io"), Rel("io")>>}

\* drop(): Io is locked after the connect slot is dealt with, to the end.
drop_locks == {<<Acq("io"), Rel("io")>>}

\* read_done: Io locked while the read-state is replaced.
read_done_locks == {<<Acq("io"), Rel("io")>>}

\* write_done: Io locked; the buffer is put back when the write is complete.
write_done_locks == {<<Acq("io")>> \o body \o <<Rel("io")>> : body \in {<<>>, pool_locks}}

\* connect_done: stores the error under the lock, or runs post_register.
connect_done_locks == {<<Acq("io"), Rel("io")>>} \cup post_register_locks

CallNames == {"read", "write", "connect", "take_error", "reregister", "deregister", "drop"}

HandlerNames == {"read_done", "write_done", "connect_done"}

OpLocks(op) ==
    CASE op = "read" -> read_locks
      [] op = "write" -> write_locks
      [] op = "connect" -> connect_locks
      [] op = "take_error" -> take_error_locks
      [] op = "reregister" -> reregister_locks
      [] op = "deregister" -> deregister_locks
      [] op = "drop" -> drop_locks
      [] op = "read_done" -> read_done_locks
      [] op = "write_done" -> write_done_locks
      [] OTHER -> connect_done_locks

\* A thread enters a call (the poller: a completion handler) and is bound to
\* one path through it.
LockCall(t, op) ==
    /\ locks.run[t] = <<>>
    /\ op \in (IF t = "poller" THEN HandlerNames ELSE CallNames)
    /\ \E path \in OpLocks(op) :
         locks' = [locks EXCEPT !.op[t] = op, !.run[t] = path]
    /\ UNCHANGED <<io, connecting, pool, poolCap, strong, alive, os, cancels, pc, link,
                   wire, last, hist, layout>>

\* The thread's next step can be taken: a lock() finds the mutex free.
LockEnabled(t) ==
    /\ locks.run[t] # <<>>
    /\ Head(locks.run[t]).do = "acq" => locks[Head(locks.run[t]).lock] = "free"

\* The thread takes its next lock or unlock step; after the last one the call
\* has returned.
LockStep(t) ==
    /\ LockEnabled(t)
    /\ LET st == Head(locks.run[t])
           holder == IF st.do = "acq" THEN t ELSE "free"
           rest == Tail(locks.run[t])
       IN  locks' = [locks EXCEPT ![st.lock] = holder,
                                  !.run[t] = rest,
                                  !.op[t] = IF rest = <<>> THEN "none" ELSE @]
    /\ UNCHANGED <<io, connecting, pool, poolCap, strong, alive, os, cancels, pc, link,
                   wire, last, hist, layout>>

InitLock ==
    /\ io = [p \in Pipes |-> IoInit]
    /\ connecting = [p \in Pipes |-> FALSE]
    /\ pool = [p \in Pipes |-> <<>>]
    /\ poolCap = [p \in Pipes |-> MaxPoolCap]
    /\ strong = [p \in Pipes |-> 1]
    /\ alive = [p \in Pipes |-> TRUE]
    /\ os = [p \in Pipes |-> NoOps]
    /\ cancels = [p \in Pipes |-> {}]
    /\ pc = [p \in Pipes |-> [t \in Threads |-> "idle"]]
    /\ link = "listening"
    /\ wire = [p \in Pipes |-> <<>>]
    /\ last = NoCall
    /\ hist = NoHist
    /\ layout = NoLayout
    /\ locks = NoLocks

NextLock ==
    \/ \E t \in LockThreads, op \in CallNames \cup HandlerNames : LockCall(t, op)
    \/ \E t \in LockThreads : LockStep(t)

\* A thread that can take its next step does so in the end; nothing obliges a
\* thread to enter a call.
SpecLock ==
    InitLock /\ [][NextLock]_vars /\ \A t \in LockThreads : WF_vars(LockStep(t))

\* The thread will not ask for the Io lock again before its call returns.
LastSection(t) ==
    \A i \in DOMAIN locks.run[t] : locks.run[t][i] # Acq("io")

\* C21: no thread asks for the Io lock or the pool lock while it holds that
\* lock; the pool lock is taken alone or inside the Io lock and released
\* before anything else is locked, so the Io lock is never asked for by the
\* holder of the pool lock; whenever some call is under way some thread can
\* take its next step (no deadlock); every holder of the Io lock releases it,
\* and a call that holds the Io lock and needs it no more after that returns
\* (reregister() holds it twice, the second time inside post_register).
C21_LockDiscipline ==
    /\ [](\A t \in LockThreads :
            /\ locks.run[t] # <<>>
               => LET st == Head(locks.run[t])
                  IN  /\ st.do = "acq" => locks[st.lock] # t
                      /\ (st.do = "acq" /\ st.lock = "io") => locks.pool # t
                      /\ st.do = "rel" => locks[st.lock] = t
            /\ locks.pool = t => Head(locks.run[t]) = Rel("pool")
            /\ locks.run[t] = <<>> => (locks.io # t /\ locks.pool # t))
    /\ []((\E t \in LockThreads : locks.run[t] # <<>>)
          => \E t \in LockThreads : LockEnabled(t))
    /\ \A t \in LockThreads :
         /\ (locks.io = t) ~> (locks.io # t)
         /\ (locks.io = t /\ LastSection(t)) ~> (locks.run[t] = <<>>)

\* read() holds the Io lock and, inside it, the pool lock, while reregister()
\* on another thread and a completion handler both wait for the Io lock.
C21_Witness ==
    /\ locks.io = "t1" /\ locks.pool = "t1" /\ locks.op["t1"] = "read"
    /\ locks.op["t2"] = "reregister" /\ Head(locks.run["t2"]) = Acq("io")
    /\ Len(locks.run["t2"]) = 6
    /\ locks.op["poller"] = "write_done" /\ Head(locks.run["poller"]) = Acq("io")

====
